---- MODULE Spec2Model ----
(***************************************************************************)
(* Constraint generation of the NLL region checker                         *)
(* (librustc_mir/transform/nll/constraint_generation.rs).                  *)
(*                                                                         *)
(* Three generators emit constraints into the region inference context:    *)
(*   - add_liveness_constraints: regular and drop liveness per block,       *)
(*   - add_drop_live_constraint: the dropck worklist of one drop-live type, *)
(*   - add_reborrow_constraint:  outlives constraints of `&'r place`.       *)
(* The region inference context is the pair (live, outlives).              *)
(***************************************************************************)
EXTENDS Naturals, Sequences, FiniteSets

VARIABLES
    pc,            \* position of the pass: "regular", "drop", "worklist", "visit", "done"
    bb,            \* basic block the pass is in
    cursor,        \* how many locations of block bb the current traversal has delivered
    regular_live,  \* location -> locals that simulate_block reported regular-live there
    todo,          \* drop-live locals of the current callback still to be processed
    dropped_ty,    \* add_drop_live_constraint: the type being dropped
    location,      \* add_drop_live_constraint / visit_rvalue: the current location
    types,         \* add_drop_live_constraint: the worklist `types` (a Vec, popped at the end)
    known,         \* add_drop_live_constraint: the set `known`
    dtorck_types,  \* residual types of the popped type the inner `for` has not reached yet
    depth,         \* depth of the popped type
    emitted,       \* add_live_point calls made by the current drop-live query
    visits,        \* type -> number of dtorck_constraint_for_ty calls in the current query
    reported,      \* number of report_fulfillment_errors calls
    live,          \* regioncx: live-point constraints (region vid, location)
    outlives,      \* regioncx: outlives constraints (sup, sub, point)
    dtorck,        \* the answers of tcx.dtorck_constraint_for_ty, by type
    normalize,     \* the answers of traits::fully_normalize_with_fulfillcx, by type
    rvalue,        \* the rvalue visit_rvalue was last called with
    calls,         \* the add_outlives calls of the last visit_rvalue, in order
    step           \* the name of the last step taken

vars == <<pc, bb, cursor, regular_live, todo, dropped_ty, location,
          types, known, dtorck_types, depth, emitted, visits, reported, live,
          outlives, dtorck, normalize, rvalue, calls, step>>

(***************************************************************************)
(* Bounds of the bodies examined.                                          *)
(***************************************************************************)
\* statements of the entry block
NumStmts == 2
\* projections of a borrowed place
MaxProj == 3
\* residual types in one oracle answer
MaxResiduals == 2
\* the visit counter saturates here
MaxVisits == 3
\* the depth of a worklist entry saturates here
MaxDepth == 3

(***************************************************************************)
(* Types (ty::Ty).  A type is a tree: its kind, the regions that occur at   *)
(* its root (the region of a reference, the region substs of an ADT, of a   *)
(* projection or of an opaque type) and its component types.               *)
(***************************************************************************)
Ty(kind, name, regions, mutbl, args) ==
    [kind |-> kind, name |-> name, regions |-> regions, mutbl |-> mutbl, args |-> args]

TyInt == Ty("Int", "i32", {}, "none", <<>>)
TyRef(r, mutbl, ty) == Ty("Ref", "&", {r}, mutbl, <<ty>>)
TyRawPtr(mutbl, ty) == Ty("RawPtr", "*", {}, mutbl, <<ty>>)
TyBox(ty) == Ty("Box", "Box", {}, "none", <<ty>>)
TyTuple(args) == Ty("Tuple", "()", {}, "none", args)
TyAdt(name, regions, args) == Ty("Adt", name, regions, "none", args)
TyParam(name) == Ty("Param", name, {}, "none", <<>>)
TyProjection(name, regions, args) == Ty("Projection", name, regions, "none", args)
TyAnon(name, regions, args) == Ty("Anon", name, regions, "none", args)
NoTy == Ty("none", "", {}, "none", <<>>)

\* tcx.for_each_free_region over a type: every region occurring anywhere in it
RECURSIVE FreeRegions(_)
FreeRegions(ty) ==
    ty.regions \cup UNION {FreeRegions(ty.args[i]) : i \in 1..Len(ty.args)}

\* the regions of the bodies examined, in interning order
RegionNames ==
    <<"r", "a", "b", "b1", "b2", "c", "d", "e", "f", "g", "h", "i", "k", "l",
      "m1", "m2", "m3", "x">>

Regions == {RegionNames[i] : i \in 1..Len(RegionNames)}

\* ToRegionVid::to_region_vid: the index the region was interned at
to_region_vid(region) == CHOOSE i \in 1..Len(RegionNames) : RegionNames[i] = region

(***************************************************************************)
(* The MIR body: two blocks, the entry block with NumStmts statements and   *)
(* a return block with none; every block ends in a terminator, which is a   *)
(* location of its own.                                                    *)
(***************************************************************************)
Blocks == {0, 1}

StatementsIn(block) == IF block = 0 THEN NumStmts ELSE 0

Location(block, index) == [block |-> block, statement_index |-> index]

\* the statements of a block and, at index StatementsIn(block), its terminator
Locations == UNION {{Location(b, i) : i \in 0..StatementsIn(b)} : b \in Blocks}

NoLocation == Location(0, 0)

\* Location::successor_within_block
successor_within_block(loc) == Location(loc.block, loc.statement_index + 1)

(***************************************************************************)
(* The types a drop-live query meets.                                      *)
(*   struct S<X: Tr>(X::A);        struct W<'a, 'b>(..);                    *)
(* Worklist types are S and W; the residual types an oracle answer may     *)
(* name are the projections <X as Tr>::A and <W<'a, 'b> as Tr>::A.         *)
(***************************************************************************)
TyX == TyParam("X")
TyW == TyAdt("W", {"a", "b"}, <<>>)
TyS == TyAdt("S", {}, <<TyX>>)
TyXA == TyProjection("<X as Tr>::A", {}, <<TyX>>)
TyWA == TyProjection("<W as Tr>::A", {}, <<TyW>>)
TyImpl == TyAnon("impl Tr", {"x"}, <<>>)

WorkTypes == {TyS, TyW}
ResidualTypes == {TyXA, TyWA}

(***************************************************************************)
(* mir.local_decls: the declared types of the locals.                      *)
(***************************************************************************)
local_decls ==
    <<TyRef("b", "mut", TyInt),                                       \* _1: &'b mut i32
      TyRef("b1", "mut", TyRef("b2", "mut", TyInt)),                  \* _2: &'b1 mut &'b2 mut i32
      TyRef("c", "not", TyInt),                                       \* _3: &'c i32
      TyRef("d", "not", TyRef("e", "mut", TyInt)),                    \* _4: &'d &'e mut i32
      TyRef("f", "mut", TyRef("g", "not", TyInt)),                    \* _5: &'f mut &'g i32
      TyRawPtr("mut", TyRef("h", "mut", TyInt)),                      \* _6: *mut &'h mut i32
      TyBox(TyRef("i", "mut", TyInt)),                                \* _7: Box<&'i mut i32>
      TyRef("k", "mut", TyTuple(<<TyRef("l", "mut", TyInt), TyInt>>)), \* _8: &'k mut (&'l mut i32, i32)
      TyRef("m1", "mut", TyRef("m2", "mut", TyRef("m3", "mut", TyInt))),
      TyInt,                                                          \* _10: i32
      TyS,                                                            \* _11: S<X>
      TyW>>                                                           \* _12: W<'a, 'b>

Locals == 1..Len(local_decls)

(***************************************************************************)
(* Places (mir::Place): a local, or a projection of a base place.  The      *)
(* projection elements are listed from the local outwards, so the last one  *)
(* is the `elem` of the outermost Place::Projection and the rest its base.  *)
(***************************************************************************)
Deref == [kind |-> "Deref", field |-> 0]
Field(n) == [kind |-> "Field", field |-> n]
ProjectionElems == {Deref, Field(0), Field(1)}

Place(local, projection) == [local |-> local, projection |-> projection]

IsProjection(place) == place.projection # <<>>
Base(place) ==
    Place(place.local, SubSeq(place.projection, 1, Len(place.projection) - 1))
Elem(place) == place.projection[Len(place.projection)]

\* a projection element applies to a base of this type
Projects(ty, elem) ==
    IF elem.kind = "Deref"
    THEN ty.kind \in {"Ref", "RawPtr", "Box"}
    ELSE ty.kind \in {"Tuple", "Adt"} /\ elem.field < Len(ty.args)

\* Place::ty(mir, tcx).to_ty(tcx): the type of a place
RECURSIVE PlaceTy(_)
PlaceTy(place) ==
    IF ~IsProjection(place)
    THEN local_decls[place.local]
    ELSE LET base_ty == PlaceTy(Base(place))
         IN  IF ~Projects(base_ty, Elem(place))
             THEN NoTy
             ELSE IF Elem(place).kind = "Deref"
                  THEN base_ty.args[1]
                  ELSE base_ty.args[Elem(place).field + 1]

RECURSIVE ProjectionsUpTo(_)
ProjectionsUpTo(n) ==
    IF n = 0
    THEN {<<>>}
    ELSE LET shorter == ProjectionsUpTo(n - 1)
         IN  shorter \cup {Append(p, e) : p \in shorter, e \in ProjectionElems}

\* the well-typed places of the body with at most MaxProj projections
Places ==
    {pl \in {Place(l, p) : l \in Locals, p \in ProjectionsUpTo(MaxProj)} :
        PlaceTy(pl) # NoTy}

(***************************************************************************)
(* Rvalues (mir::Rvalue): a borrow `&'region place`, or some other rvalue.  *)
(***************************************************************************)
Ref(region, place) == [kind |-> "Ref", region |-> region, place |-> place]
Use(place) == [kind |-> "Use", region |-> "none", place |-> place]
NoRvalue == [kind |-> "none", region |-> "none", place |-> Place(1, <<>>)]

Rvalues == {Ref("r", pl) : pl \in Places} \cup {Use(Place(1, <<>>))}

(***************************************************************************)
(* add_reborrow_constraint: the add_outlives calls it makes, in order.      *)
(***************************************************************************)
Outlives(span, sup, sub, point) ==
    [span |-> span, sup |-> sup, sub |-> sub, point |-> point]

RECURSIVE add_reborrow_constraint(_, _, _)

\* as add_reborrow_constraint, without the recursion on a mutable base
add_reborrow_constraint_flat(loc, borrow_region, borrowed_place) ==
    IF ~IsProjection(borrowed_place)
    THEN <<>>
    ELSE IF Elem(borrowed_place).kind # "Deref"
    THEN <<>>
    ELSE LET base_ty == PlaceTy(Base(borrowed_place))
         IN  IF base_ty.kind # "Ref"
             THEN <<>>
             ELSE <<Outlives(loc,
                             to_region_vid(CHOOSE reg \in base_ty.regions : TRUE),
                             to_region_vid(borrow_region),
                             successor_within_block(loc))>>

\* as add_reborrow_constraint, the recursion constraining the base against
\* the region of the reference dereferenced instead of the borrow region
add_reborrow_constraint_linked(loc, borrow_region, borrowed_place) ==
    IF ~IsProjection(borrowed_place)
    THEN <<>>
    ELSE IF Elem(borrowed_place).kind # "Deref"
    THEN <<>>
    ELSE LET base == Base(borrowed_place)
             base_ty == PlaceTy(base)
         IN  IF base_ty.kind # "Ref"
             THEN <<>>
             ELSE LET base_region == CHOOSE reg \in base_ty.regions : TRUE
                      deeper == IF base_ty.mutbl = "mut"
                                THEN add_reborrow_constraint(loc, base_region, base)
                                ELSE <<>>
                  IN  Append(deeper,
                             Outlives(loc,
                                      to_region_vid(base_region),
                                      to_region_vid(borrow_region),
                                      successor_within_block(loc)))

\* as add_reborrow_constraint, looking through a field projection
add_reborrow_constraint_fields(loc, borrow_region, borrowed_place) ==
    IF ~IsProjection(borrowed_place)
    THEN <<>>
    ELSE IF Elem(borrowed_place).kind # "Deref"
    THEN add_reborrow_constraint(loc, borrow_region, Base(borrowed_place))
    ELSE LET base == Base(borrowed_place)
             base_ty == PlaceTy(base)
         IN  IF base_ty.kind # "Ref"
             THEN <<>>
             ELSE LET base_region == CHOOSE reg \in base_ty.regions : TRUE
                      deeper == IF base_ty.mutbl = "mut"
                                THEN add_reborrow_constraint(loc, borrow_region, base)
                                ELSE <<>>
                  IN  Append(deeper,
                             Outlives(loc,
                                      to_region_vid(base_region),
                                      to_region_vid(borrow_region),
                                      successor_within_block(loc)))

add_reborrow_constraint(loc, borrow_region, borrowed_place) ==
    IF ~IsProjection(borrowed_place)
    THEN <<>>
    ELSE IF Elem(borrowed_place).kind # "Deref"
    THEN <<>>
    ELSE LET base == Base(borrowed_place)
             base_ty == PlaceTy(base)
         IN  IF base_ty.kind # "Ref"
             THEN <<>>
             ELSE LET base_region == CHOOSE reg \in base_ty.regions : TRUE
                      deeper == IF base_ty.mutbl = "mut"
                                THEN add_reborrow_constraint(loc, borrow_region, base)
                                ELSE <<>>
                  IN  Append(deeper,
                             Outlives(loc,
                                      to_region_vid(base_region),
                                      to_region_vid(borrow_region),
                                      successor_within_block(loc)))

Range(seq) == {seq[i] : i \in 1..Len(seq)}

(***************************************************************************)
(* The collaborators' answers.  Both are pure functions of the type; an     *)
(* answer is drawn when the type is first asked about and kept.            *)
(***************************************************************************)
Unknown == [tag |-> "Unknown", outlives |-> <<>>, dtorck_types |-> <<>>]
ErrorReported == [tag |-> "Err", outlives |-> <<>>, dtorck_types |-> <<>>]
DtorckConstraint(outlive, residuals) ==
    [tag |-> "Ok", outlives |-> outlive, dtorck_types |-> residuals]

\* ty::subst::Kind: a type or a region
KindType(ty) == [tag |-> "type", ty |-> ty, region |-> "none"]
KindRegion(region) == [tag |-> "region", ty |-> NoTy, region |-> region]

\* the `outlives` items of a type are among its own substs
OutlivesChoices(ty) ==
    IF ty = TyS
    THEN {<<>>, <<KindType(TyX)>>}
    ELSE {<<>>, <<KindRegion("a")>>, <<KindRegion("b"), KindType(TyW)>>}

RECURSIVE SeqsUpTo(_, _)
SeqsUpTo(set, n) ==
    IF n = 0
    THEN {<<>>}
    ELSE LET shorter == SeqsUpTo(set, n - 1)
         IN  shorter \cup {Append(q, e) : q \in shorter, e \in set}

DtorckChoices(ty) ==
    {ErrorReported} \cup
    {DtorckConstraint(o, d) :
        o \in OutlivesChoices(ty), d \in SeqsUpTo(ResidualTypes, MaxResiduals)}

NotNormalized == [tag |-> "Unknown", ty |-> NoTy]
NormalizeErr == [tag |-> "Err", ty |-> NoTy]
Normalized(ty) == [tag |-> "Ok", ty |-> ty]

\* a projection normalizes to a worklist type, to a parameter, to an opaque
\* type or to itself, or fails
NormalizeChoices(ty) ==
    {NormalizeErr} \cup {Normalized(n) : n \in WorkTypes \cup {TyX, TyImpl, ty}}

DtorckAnswers(ty) ==
    IF dtorck[ty] = Unknown THEN DtorckChoices(ty) ELSE {dtorck[ty]}

NormalizeAnswers(ty) ==
    IF normalize[ty] = NotNormalized THEN NormalizeChoices(ty) ELSE {normalize[ty]}

(***************************************************************************)
(* add_regular_live_constraint: the add_live_point calls it makes.          *)
(***************************************************************************)
\* as add_regular_live_constraint, seeing only the regions at the root of the type
add_regular_live_constraint_root(live_ty, loc) ==
    {<<to_region_vid(region), loc>> : region \in live_ty.regions}

add_regular_live_constraint(live_ty, loc) ==
    {<<to_region_vid(region), loc>> : region \in FreeRegions(live_ty)}

\* the same for a ty::Region, whose only free region is itself
add_regular_live_region(region, loc) == {<<to_region_vid(region), loc>>}

\* the `for outlive in outlives` loop
add_outlives_live(outlive, loc) ==
    UNION {IF outlive[i].tag = "type"
           THEN add_regular_live_constraint(outlive[i].ty, loc)
           ELSE add_regular_live_region(outlive[i].region, loc) :
           i \in 1..Len(outlive)}

(***************************************************************************)
(* add_drop_live_constraint, one step of its loops at a time.               *)
(***************************************************************************)
Unresolved(ty) == ty.kind \in {"Param", "Projection", "Anon"}

Bump(n) == IF n < MaxVisits THEN n + 1 ELSE MaxVisits

\* depth + 1; the depth of a worklist entry stays below MaxDepth
Deeper(n) == IF n < MaxDepth THEN n + 1 ELSE MaxDepth

liveness_vars == <<bb, cursor, regular_live, todo>>
borrow_vars == <<outlives, rvalue, calls>>
query_vars == <<dropped_ty, location>>

\* lines 114-123: the query starts with the worklist [(dropped_ty, 0)]
StartQuery(ty, loc) ==
    /\ dropped_ty' = ty
    /\ location' = loc
    /\ types' = <<[ty |-> ty, depth |-> 0]>>
    /\ known' = {}
    /\ dtorck_types' = <<>>
    /\ depth' = 0
    /\ emitted' = {}
    /\ visits' = [t \in WorkTypes |-> 0]
    /\ pc' = "worklist"

\* as OnErrorReported, leaving the query instead of continuing the loop
OnErrorReported_return(rest) ==
    /\ types' = <<>>
    /\ dtorck_types' = <<>>
    /\ UNCHANGED <<depth, known, emitted, live, reported>>
    /\ step' = "dtorck_err"

\* lines 128-130: Err(ErrorReported) => continue
OnErrorReported(rest) ==
    /\ types' = rest
    /\ dtorck_types' = <<>>
    /\ UNCHANGED <<depth, known, emitted, live, reported>>
    /\ step' = "dtorck_err"

\* as OnDtorckConstraint, the entry being read and left on the worklist
OnDtorckConstraint_peek(top, rest, result) ==
    /\ types' = Append(rest, top)
    /\ dtorck_types' = result.dtorck_types
    /\ depth' = top.depth
    /\ live' = live \cup add_outlives_live(result.outlives, location)
    /\ emitted' = emitted \cup add_outlives_live(result.outlives, location)
    /\ UNCHANGED <<known, reported>>
    /\ step' = "dtorck_ok"

\* lines 133-148: every `outlives` item is made live at the location
OnDtorckConstraint(top, rest, result) ==
    /\ types' = rest
    /\ dtorck_types' = result.dtorck_types
    /\ depth' = top.depth
    /\ live' = live \cup add_outlives_live(result.outlives, location)
    /\ emitted' = emitted \cup add_outlives_live(result.outlives, location)
    /\ UNCHANGED <<known, reported>>
    /\ step' = "dtorck_ok"

\* lines 124-148: pop a type and ask the drop-check oracle about it
Pop ==
    /\ pc = "worklist"
    /\ dtorck_types = <<>>
    /\ types # <<>>
    /\ LET top == types[Len(types)]
           rest == SubSeq(types, 1, Len(types) - 1)
       IN  \E result \in DtorckAnswers(top.ty) :
               /\ dtorck' = [dtorck EXCEPT ![top.ty] = result]
               /\ visits' = [visits EXCEPT ![top.ty] = Bump(@)]
               /\ IF result.tag = "Err"
                  THEN OnErrorReported(rest)
                  ELSE OnDtorckConstraint(top, rest, result)
    /\ UNCHANGED <<pc, normalize, liveness_vars, borrow_vars, query_vars>>

\* as OnUnresolved, the regions of the type being forgotten
OnUnresolved_silent(ty, rest) ==
    /\ dtorck_types' = rest
    /\ UNCHANGED <<live, emitted, types, known, reported>>
    /\ step' = "unresolved"

\* as OnUnresolved, the type being reported as one that failed to normalize
OnUnresolved_error(ty, rest) ==
    /\ reported' = reported + 1
    /\ dtorck_types' = rest
    /\ UNCHANGED <<types, known, live, emitted>>
    /\ step' = "unresolved"

\* lines 167-169: a parameter, projection or opaque type is made live itself
OnUnresolved(ty, rest) ==
    /\ live' = live \cup add_regular_live_constraint(ty, location)
    /\ emitted' = emitted \cup add_regular_live_constraint(ty, location)
    /\ dtorck_types' = rest
    /\ UNCHANGED <<types, known, reported>>
    /\ step' = "unresolved"

\* lines 171-173: any other type is pushed unless `known` already holds it
OnResolved(ty, rest) ==
    /\ known' = known \cup {ty}
    /\ types' = IF ty \in known
                THEN types
                ELSE Append(types, [ty |-> ty, depth |-> Deeper(depth)])
    /\ dtorck_types' = rest
    /\ UNCHANGED <<live, emitted, reported>>
    /\ step' = IF ty \in known THEN "known" ELSE "push"

\* as OnNormalizeErr, giving up the remaining residual types
OnNormalizeErr_break(rest) ==
    /\ reported' = reported + 1
    /\ dtorck_types' = <<>>
    /\ UNCHANGED <<types, known, live, emitted>>
    /\ step' = "normalize_err"

\* lines 176-178: the errors go to report_fulfillment_errors
OnNormalizeErr(rest) ==
    /\ reported' = reported + 1
    /\ dtorck_types' = rest
    /\ UNCHANGED <<types, known, live, emitted>>
    /\ step' = "normalize_err"

\* lines 154-180: normalize the next residual type of the popped type
Residual ==
    /\ pc = "worklist"
    /\ dtorck_types # <<>>
    /\ LET ty == Head(dtorck_types)
           rest == Tail(dtorck_types)
       IN  \E result \in NormalizeAnswers(ty) :
               /\ normalize' = [normalize EXCEPT ![ty] = result]
               /\ IF result.tag = "Err"
                  THEN OnNormalizeErr(rest)
                  ELSE IF Unresolved(result.ty)
                       THEN OnUnresolved(result.ty, rest)
                       ELSE OnResolved(result.ty, rest)
    /\ UNCHANGED <<pc, depth, visits, dtorck, liveness_vars, borrow_vars, query_vars>>

\* line 124, 181-182: the worklist is empty, add_drop_live_constraint returns
\* and its locals go out of scope
Return ==
    /\ pc = "worklist"
    /\ dtorck_types = <<>>
    /\ types = <<>>
    /\ pc' = "drop"
    /\ dropped_ty' = NoTy
    /\ known' = {}
    /\ depth' = 0
    /\ emitted' = {}
    /\ visits' = [t \in WorkTypes |-> 0]
    /\ step' = "return"
    /\ UNCHANGED <<types, dtorck_types, location, reported, live, dtorck, normalize,
                   liveness_vars, borrow_vars>>

(***************************************************************************)
(* add_liveness_constraints.                                               *)
(***************************************************************************)
\* LivenessResults::simulate_block: the locations of a block, as delivered
SimulateOrder(block) == [i \in 1..(StatementsIn(block) + 1) |-> Location(block, i - 1)]

\* the live sets the liveness results may hold at a location
RegularLiveSets == SUBSET {2, 12}
DropLiveSets == SUBSET {l \in Locals : local_decls[l] \in WorkTypes}

\* live_locals.iter(): ascending
RECURSIVE Ascending(_)
Ascending(set) ==
    IF set = {}
    THEN <<>>
    ELSE LET least == CHOOSE l \in set : \A m \in set : l <= m
         IN  <<least>> \o Ascending(set \ {least})

drop_vars == <<dropped_ty, types, known, dtorck_types, depth, emitted, visits,
               reported, dtorck, normalize>>

\* lines 69-74: the callback of the regular simulation at one location
RegularCallback ==
    /\ pc = "regular"
    /\ cursor < Len(SimulateOrder(bb))
    /\ LET loc == SimulateOrder(bb)[cursor + 1]
       IN  \E live_set \in RegularLiveSets :
               /\ location' = loc
               /\ regular_live' = [regular_live EXCEPT ![loc] = live_set]
               /\ live' = live \cup
                     UNION {add_regular_live_constraint(local_decls[l], loc) :
                            l \in live_set}
    /\ cursor' = cursor + 1
    /\ step' = "regular"
    /\ UNCHANGED <<pc, bb, todo, drop_vars, borrow_vars>>

\* lines 74-78: the regular simulation of the block is over, the drop one starts
RegularDone ==
    /\ pc = "regular"
    /\ cursor = Len(SimulateOrder(bb))
    /\ pc' = "drop"
    /\ cursor' = 0
    /\ step' = "regular_done"
    /\ UNCHANGED <<bb, regular_live, todo, location, live, drop_vars,
                   borrow_vars>>

\* lines 78-79: the callback of the drop simulation is entered at one location
DropCallback ==
    /\ pc = "drop"
    /\ todo = <<>>
    /\ cursor < Len(SimulateOrder(bb))
    /\ \E live_set \in DropLiveSets : todo' = Ascending(live_set)
    /\ location' = SimulateOrder(bb)[cursor + 1]
    /\ cursor' = cursor + 1
    /\ step' = "drop"
    /\ UNCHANGED <<pc, bb, regular_live, live, drop_vars, borrow_vars>>

\* lines 79-82: the next drop-live local is handed to add_drop_live_constraint
DropLocal ==
    /\ pc = "drop"
    /\ todo # <<>>
    /\ StartQuery(local_decls[Head(todo)], location)
    /\ todo' = Tail(todo)
    /\ step' = "query"
    /\ UNCHANGED <<bb, cursor, regular_live, reported, live, dtorck,
                   normalize, borrow_vars>>

\* lines 64, 83-85: the block is done; the next block, or the end
BlockDone ==
    /\ pc = "drop"
    /\ todo = <<>>
    /\ cursor = Len(SimulateOrder(bb))
    /\ IF bb + 1 \in Blocks
       THEN pc' = "regular" /\ bb' = bb + 1
       ELSE pc' = "done" /\ bb' = bb
    /\ cursor' = 0
    /\ step' = "block_done"
    /\ UNCHANGED <<regular_live, todo, location, live, drop_vars,
                   borrow_vars>>

(***************************************************************************)
(* add_borrow_constraints: visit_rvalue at every statement.                 *)
(***************************************************************************)
\* lines 223-240
visit_rvalue(rv, loc) ==
    IF rv.kind = "Ref"
    THEN add_reborrow_constraint(loc, rv.region, rv.place)
    ELSE <<>>

\* RegionInferenceContext::add_outlives: the constraint an add_outlives call records
Constraint(call) == <<call.sup, call.sub, call.point>>

\* the visitor reaches the rvalue of the next statement of the block
VisitStatement ==
    /\ pc = "visit"
    /\ cursor < StatementsIn(bb)
    /\ \E rv \in Rvalues :
           /\ rvalue' = rv
           /\ calls' = visit_rvalue(rv, Location(bb, cursor))
           /\ outlives' = outlives \cup
                 {Constraint(c) : c \in Range(visit_rvalue(rv, Location(bb, cursor)))}
    /\ location' = Location(bb, cursor)
    /\ cursor' = cursor + 1
    /\ step' = "visit"
    /\ UNCHANGED <<pc, bb, regular_live, todo, live, drop_vars>>

\* the visitor passes the terminator of the block; the next block, or the end
VisitTerminator ==
    /\ pc = "visit"
    /\ cursor = StatementsIn(bb)
    /\ IF bb + 1 \in Blocks
       THEN pc' = "visit" /\ bb' = bb + 1
       ELSE pc' = "done" /\ bb' = bb
    /\ cursor' = 0
    /\ step' = "terminator"
    /\ UNCHANGED <<regular_live, todo, location, live, drop_vars,
                   borrow_vars>>

(***************************************************************************)
(* Specifications.                                                         *)
(***************************************************************************)
InitShared ==
    /\ bb = 0
    /\ cursor = 0
    /\ regular_live = [loc \in Locations |-> {}]
    /\ todo = <<>>
    /\ known = {}
    /\ dtorck_types = <<>>
    /\ depth = 0
    /\ emitted = {}
    /\ visits = [t \in WorkTypes |-> 0]
    /\ reported = 0
    /\ live = {}
    /\ outlives = {}
    /\ rvalue = NoRvalue
    /\ calls = <<>>
    /\ step = "init"

\* add_liveness_constraints over the body, in a crate where S<X> leaves
\* <X as Tr>::A to be normalized (to W<'a, 'b>, to X, or not at all) and the
\* destructor of W<'a, 'b> touches 'a only
InitLiveness ==
    /\ InitShared
    /\ dtorck = [t \in WorkTypes |->
                    IF t = TyS
                    THEN DtorckConstraint(<<>>, <<TyXA>>)
                    ELSE DtorckConstraint(<<KindRegion("a")>>, <<>>)]
    /\ \E result \in {NormalizeErr, Normalized(TyW), Normalized(TyX)} :
           normalize = [t \in ResidualTypes |->
                           IF t = TyXA THEN result ELSE Normalized(TyWA)]
    /\ pc = "regular"
    /\ dropped_ty = NoTy
    /\ location = NoLocation
    /\ types = <<>>

NextLiveness ==
    \/ RegularCallback
    \/ RegularDone
    \/ DropCallback
    \/ DropLocal
    \/ Pop
    \/ Residual
    \/ Return
    \/ BlockDone

SpecLiveness == InitLiveness /\ [][NextLiveness]_vars

\* one add_drop_live_constraint(dropped_ty, location) query
InitDrop ==
    /\ InitShared
    /\ dtorck = [t \in WorkTypes |-> Unknown]
    /\ normalize = [t \in ResidualTypes |-> NotNormalized]
    /\ pc = "worklist"
    /\ dropped_ty \in WorkTypes
    /\ location \in Locations
    /\ types = <<[ty |-> dropped_ty, depth |-> 0]>>

NextDrop ==
    \/ Pop
    \/ Residual
    \/ Return

SpecDrop == InitDrop /\ [][NextDrop]_vars

\* the loops of the query are sequential code: a step that can be taken is taken
FairSpecDrop == SpecDrop /\ WF_vars(NextDrop)

\* add_borrow_constraints over the body
InitBorrow ==
    /\ InitShared
    /\ dtorck = [t \in WorkTypes |-> Unknown]
    /\ normalize = [t \in ResidualTypes |-> NotNormalized]
    /\ pc = "visit"
    /\ dropped_ty = NoTy
    /\ location = NoLocation
    /\ types = <<>>

NextBorrow ==
    \/ VisitStatement
    \/ VisitTerminator

SpecBorrow == InitBorrow /\ [][NextBorrow]_vars

(***************************************************************************)
(* Properties.                                                             *)
(***************************************************************************)
\* the live-point constraint (region, loc) has been recorded
LiveAt(region, loc) == <<to_region_vid(region), loc>> \in live

\* C1. Liveness soundness: once add_liveness_constraints has finished, every
\* free region of the declared type of a local that simulate_block reported
\* regular-live at a location is live at exactly that location.
LivenessSoundness ==
    pc = "done" =>
        \A loc \in Locations : \A l \in regular_live[loc] :
            \A region \in FreeRegions(local_decls[l]) : LiveAt(region, loc)

\* _2: &'b1 mut &'b2 mut i32 was regular-live at the first statement and not
\* at the terminator of the entry block
LivenessSoundnessWitness ==
    /\ pc = "done"
    /\ 2 \in regular_live[Location(0, 0)]
    /\ 2 \notin regular_live[Location(0, NumStmts)]
    /\ LiveAt("b2", Location(0, 0))

\* the place with the first k projections of a place
Prefix(place, k) == Place(place.local, SubSeq(place.projection, 1, k))

\* the region of the reference that link k of a chain dereferences
LinkRegion(place, k) == CHOOSE reg \in PlaceTy(Prefix(place, k)).regions : TRUE

\* a chain of N >= 1 dereferences, each of a mutable reference
MutableChain(place) ==
    /\ Len(place.projection) >= 1
    /\ \A k \in 1..Len(place.projection) :
          /\ place.projection[k].kind = "Deref"
          /\ PlaceTy(Prefix(place, k - 1)).kind = "Ref"
          /\ PlaceTy(Prefix(place, k - 1)).mutbl = "mut"

\* a dereference of a place whose type is a reference
DerefOfRef(place) ==
    /\ Len(place.projection) >= 1
    /\ place.projection[Len(place.projection)].kind = "Deref"
    /\ PlaceTy(Prefix(place, Len(place.projection) - 1)).kind = "Ref"

\* a dereference of a place whose type is an immutable reference
DerefOfImmutableRef(place) ==
    /\ DerefOfRef(place)
    /\ PlaceTy(Prefix(place, Len(place.projection) - 1)).mutbl = "not"

\* visit_rvalue has just been called with a borrow
Borrowed == step = "visit" /\ rvalue.kind = "Ref"

\* C2. Reborrow chain propagation: a borrow through a chain of N dereferences of
\* mutable references makes exactly N add_outlives calls, one per link (the
\* region of the reference the link dereferences), each at the successor of the
\* location of the borrow; a borrow whose place dereferences an immutable
\* reference makes exactly one, for that reference.
ReborrowChainPropagation ==
    Borrowed =>
        LET place == rvalue.place
            N == Len(place.projection)
        IN  /\ MutableChain(place) =>
                  /\ Len(calls) = N
                  /\ \A k \in 1..N :
                        /\ calls[k].sup = to_region_vid(LinkRegion(place, k - 1))
                        /\ calls[k].point = successor_within_block(location)
            /\ DerefOfImmutableRef(place) =>
                  /\ Len(calls) = 1
                  /\ calls[1].sup = to_region_vid(LinkRegion(place, N - 1))
                  /\ calls[1].point = successor_within_block(location)

\* `&'r ***_9` through three mutable references is borrowed at the second
\* statement, after `&'r *_4` through an immutable one at the first
ReborrowChainWitness ==
    /\ Borrowed
    /\ rvalue = Ref("r", Place(9, <<Deref, Deref, Deref>>))
    /\ Len(calls) = 3
    /\ location = Location(0, 1)
    /\ <<to_region_vid("d"), to_region_vid("r"), Location(0, 1)>> \in outlives

\* the constraints the add_outlives calls of the last visit_rvalue recorded
Recorded == {Constraint(calls[k]) : k \in 1..Len(calls)}

\* `&'r **_2` with _2: &'b1 mut &'b2 mut i32 has just been visited
ScenarioC == Borrowed /\ rvalue = Ref("r", Place(2, <<Deref, Deref>>))

\* C3, as claimed. Scenario C: `&'r **y` with y: &'b1 mut &'b2 mut T emits
\* (b2, r, successor(P)) and (b1, b2, successor(P)).
ScenarioCLinked ==
    ScenarioC =>
        /\ Len(calls) = 2
        /\ Recorded =
              {<<to_region_vid("b2"), to_region_vid("r"), successor_within_block(location)>>,
               <<to_region_vid("b1"), to_region_vid("b2"), successor_within_block(location)>>}

\* C3, amended. Scenario C: `&'r **y` with y: &'b1 mut &'b2 mut T emits
\* (b2, r, successor(P)) and (b1, r, successor(P)): both links are constrained
\* against the region r of the new borrow.
ScenarioCBorrowRegion ==
    ScenarioC =>
        /\ Len(calls) = 2
        /\ Recorded =
              {<<to_region_vid("b2"), to_region_vid("r"), successor_within_block(location)>>,
               <<to_region_vid("b1"), to_region_vid("r"), successor_within_block(location)>>}

ScenarioCWitness == ScenarioC /\ Recorded \subseteq outlives /\ Len(calls) = 2

\* C10. A borrow `&'r P` makes no add_outlives call when P is not a dereference
\* of a reference-typed place: a local, a dereference of a raw pointer or a box,
\* or a field taken of a dereference.
FreshBorrowEmitsNothing ==
    (Borrowed /\ ~DerefOfRef(rvalue.place)) => calls = <<>>

\* `&'r (*_8).0` with _8: &'k mut (&'l mut i32, i32) has just been visited
FreshBorrowWitness ==
    /\ Borrowed
    /\ rvalue = Ref("r", Place(8, <<Deref, Field(0)>>))
    /\ calls = <<>>
    /\ outlives = {}

\* the saturating counters never saturate: a depth stays below MaxDepth and a
\* visit count below MaxVisits
CountersInRange ==
    /\ \A i \in 1..Len(types) : types[i].depth < MaxDepth
    /\ \A t \in WorkTypes : visits[t] < MaxVisits

\* the query has emptied its worklist and is about to return
QueryOver == pc = "worklist" /\ types = <<>> /\ dtorck_types = <<>>

\* the worklist types a normalized residual type of these types leads to
Successors(set) ==
    {normalize[u].ty :
        u \in {u \in ResidualTypes :
                  /\ \E t \in set : dtorck[t].tag = "Ok" /\ u \in Range(dtorck[t].dtorck_types)
                  /\ normalize[u].tag = "Ok"
                  /\ normalize[u].ty.kind \notin {"Param", "Projection", "Anon"}}}

RECURSIVE VisitedFrom(_)
VisitedFrom(set) ==
    IF Successors(set) \subseteq set THEN set ELSE VisitedFrom(set \cup Successors(set))

\* the regions of the `outlives` items of a visited type
OutlivesRegions(t) ==
    UNION {IF dtorck[t].outlives[i].tag = "region"
           THEN {dtorck[t].outlives[i].region}
           ELSE FreeRegions(dtorck[t].outlives[i].ty) :
           i \in 1..Len(dtorck[t].outlives)}

\* the free regions of the residual types of a visited type that normalize to
\* a parameter, a projection or an opaque type
UnresolvedRegions(t) ==
    UNION {FreeRegions(normalize[u].ty) :
           u \in {u \in Range(dtorck[t].dtorck_types) :
                     /\ normalize[u].tag = "Ok"
                     /\ normalize[u].ty.kind \in {"Param", "Projection", "Anon"}}}

\* the closure derived from the oracle for the dropped type
TouchedRegions ==
    UNION {OutlivesRegions(t) \cup UnresolvedRegions(t) :
           t \in {t \in VisitedFrom({dropped_ty}) : dtorck[t].tag = "Ok"}}

EmittedIsClosure ==
    emitted = {<<to_region_vid(region), location>> : region \in TouchedRegions}

WorklistTermination == <>(pc = "drop")

\* the query has returned although S<X> and W<'a, 'b> lead to each other
WorklistTerminationWitness ==
    /\ pc = "drop"
    /\ step = "return"
    /\ dtorck[TyS].tag = "Ok" /\ TyXA \in Range(dtorck[TyS].dtorck_types)
    /\ dtorck[TyW].tag = "Ok" /\ TyWA \in Range(dtorck[TyW].dtorck_types)
    /\ normalize[TyXA] = Normalized(TyW)
    /\ normalize[TyWA] = Normalized(TyS)

\* C6. Within one query each distinct type is popped and submitted to the
\* drop-check oracle at most once, the dropped type included.
VisitedAtMostOnce == \A t \in WorkTypes : visits[t] <= 1

\* C7. When the oracle answers ErrorReported for the popped type, the type adds
\* no live point, pushes nothing and reports nothing; the live points made
\* earlier stay, and the loop goes on with the rest of the worklist.
ErrorReportedAbsorbed ==
    [][(/\ pc = "worklist"
        /\ dtorck_types = <<>>
        /\ types # <<>>
        /\ dtorck'[types[Len(types)].ty].tag = "Err")
       => (/\ live' = live
           /\ emitted' = emitted
           /\ reported' = reported
           /\ known' = known
           /\ types' = SubSeq(types, 1, Len(types) - 1)
           /\ dtorck_types' = <<>>
           /\ pc' = "worklist")]_vars

\* the oracle has answered ErrorReported with a live point made and another
\* type on the worklist
ErrorReportedWitness ==
    /\ step = "dtorck_err"
    /\ pc = "worklist"
    /\ types # <<>>
    /\ emitted # {}
    /\ reported = 0

\* C8. When a residual type fails to normalize, the errors are reported once,
\* the type adds no live point and is not pushed, and the loops go on with the
\* remaining residual types and the worklist as it was.
NormalizeErrReported ==
    [][(/\ pc = "worklist"
        /\ dtorck_types # <<>>
        /\ normalize'[Head(dtorck_types)].tag = "Err")
       => (/\ reported' = reported + 1
           /\ live' = live
           /\ emitted' = emitted
           /\ known' = known
           /\ types' = types
           /\ dtorck_types' = Tail(dtorck_types)
           /\ pc' = "worklist")]_vars

\* a residual type has failed to normalize with a live point made and another
\* residual type of the same answer to come
NormalizeErrWitness ==
    /\ step = "normalize_err"
    /\ pc = "worklist"
    /\ dtorck_types # <<>>
    /\ emitted # {}
    /\ reported = 1

\* C9. A residual type that normalizes to a parameter, a projection or an
\* opaque type is not pushed and is not reported: every free region of the
\* normalized type is made live at the location of the query.
UnresolvedMadeLive ==
    [][(/\ pc = "worklist"
        /\ dtorck_types # <<>>
        /\ normalize'[Head(dtorck_types)].tag = "Ok"
        /\ normalize'[Head(dtorck_types)].ty.kind \in {"Param", "Projection", "Anon"})
       => (/\ types' = types
           /\ known' = known
           /\ reported' = reported
           /\ live' = live \cup
                 {<<to_region_vid(region), location>> :
                     region \in FreeRegions(normalize'[Head(dtorck_types)].ty)}
           /\ dtorck_types' = Tail(dtorck_types)
           /\ pc' = "worklist")]_vars

\* <W<'a, 'b> as Tr>::A stayed a projection: 'a and 'b are live, nothing is
\* pushed or reported
UnresolvedWitness ==
    /\ step = "unresolved"
    /\ normalize[TyWA] = Normalized(TyWA)
    /\ dtorck[dropped_ty].outlives = <<>>
    /\ emitted = {<<to_region_vid("a"), location>>, <<to_region_vid("b"), location>>}
    /\ types = <<>>
    /\ reported = 0

====
